---- MODULE Spec2Model ----
(***************************************************************************)
(* Ember.SimpleAuth.Session (packages/ember-simple-auth/lib/session.js):   *)
(* the session state machine, its delegation to authenticators looked up   *)
(* from the container, the session-updated listeners it binds on them and  *)
(* its guarded writes to the shared store.                                 *)
(*                                                                         *)
(* Each handler of the session runs to completion (single-threaded,        *)
(* promise/event based), so each handler is one action.  A handler is      *)
(* written as a function from a record of the mutable state to the record  *)
(* after the handler, so that the calls it makes (setup, clear, off, ...)  *)
(* compose in the order of the code.                                       *)
(***************************************************************************)
EXTENDS Integers, Sequences, FiniteSets, TLC

VARIABLES
    isAuthenticated,       \* Session.isAuthenticated
    authenticatorFactory,  \* Session.authenticatorFactory
    content,               \* Session.content
    contentSource,         \* the authenticator that produced `content`
    listeners,             \* per authenticator: bound session-updated listeners of the session
    storeBound,            \* the session's listener on the store is bound
    storeData,             \* the record the store holds
    storeLocked,           \* the store's advisory lock flag
    pending,               \* authenticator promises that have not settled yet
    last                   \* what the most recent handler was given and did

vars == <<isAuthenticated, authenticatorFactory, content, contentSource,
          listeners, storeBound, storeData, storeLocked, pending, last>>

----------------------------------------------------------------------------
(* Bounds and value domains *)

MaxInFlight == 2           \* authenticator promises pending at the same time

Ids == {"a", "b"}          \* authenticator factories registered with the container
null == "null"
Absent == "absent"         \* a key a property bag does not have
Tokens == {"T1"}
Errors == {"E1", "E2"}
TypeError == "TypeError"
Keys == {"token", "authenticatorFactory"}

Bag(t, f) == [token |-> t, authenticatorFactory |-> f]
Empty == Bag(Absent, Absent)
NullContent == Bag(null, null)       \* the value null where a bag is expected
\* the records another writer may leave in the store: nothing, properties
\* without an authenticatorFactory, a session of either authenticator
Records == {Empty} \cup {Bag(t, f) : t \in Tokens, f \in Ids \cup {Absent}}
\* what an authenticator may resolve with or emit: null, the empty bag, a
\* bag, a bag that itself has a key named authenticatorFactory
Contents == {NullContent, Empty} \cup {Bag(t, f) : t \in Tokens, f \in {Absent, "b"}}

----------------------------------------------------------------------------
(* The mutable state as one record, and effects on it *)

Cur ==
    [isAuthenticated |-> isAuthenticated,
     authenticatorFactory |-> authenticatorFactory,
     content |-> content,
     contentSource |-> contentSource,
     listeners |-> listeners,
     storeData |-> storeData,
     storeLocked |-> storeLocked,
     log |-> <<>>,           \* the calls issued by the running handler, in order
     threw |-> FALSE,        \* the running handler was aborted by an exception
     promise |-> "none",     \* what the handler did to the caller's promise
     reason |-> null]        \* the error it rejected the caller's promise with

Logged(s, what) == [s EXCEPT !.log = Append(@, what)]

(* Store capability set *)
store_restore(s) == s.storeData
store_isLocked(s) == s.storeLocked
store_lock(s) == Logged([s EXCEPT !.storeLocked = TRUE], "store.lock")
store_unlock(s) == Logged([s EXCEPT !.storeLocked = FALSE], "store.unlock")
store_clear(s) == Logged([s EXCEPT !.storeData = Empty], "store.clear")
store_persist(s, data) ==
    Logged([s EXCEPT !.storeData =
               [k \in Keys |-> IF data[k] # Absent THEN data[k] ELSE @[k]]],
           "store.persist")

(* container.lookup(name): an instance for a registered factory, nothing
   for null *)
lookup(name) == name \in Ids

(* Ember.$.extend(target, object): the object's own keys overwrite the
   target's; null is skipped *)
extend(target, object) ==
    IF object = NullContent THEN target
    ELSE [k \in Keys |-> IF object[k] # Absent THEN object[k] ELSE target[k]]

(* delete properties.authenticatorFactory *)
deleteFactory(properties) == [properties EXCEPT !.authenticatorFactory = Absent]

(* authenticator.off('ember-simple-auth:session-updated') *)
off(s, name) == Logged([s EXCEPT !.listeners[name] = 0], "off")
(* authenticator.on('ember-simple-auth:session-updated', listener) *)
on(s, name) == Logged([s EXCEPT !.listeners[name] = @ + 1], "on")

setProperties(s, auth, factory, c) ==
    Logged([s EXCEPT !.isAuthenticated = auth,
                     !.authenticatorFactory = factory,
                     !.content = c],
           "setProperties")

resolve(s) == Logged([s EXCEPT !.promise = "resolved"], "resolve")
reject(s, error) ==
    Logged([s EXCEPT !.promise = "rejected", !.reason = error], "reject")
throw(s) == [s EXCEPT !.threw = TRUE]

----------------------------------------------------------------------------
(* Session methods *)

bindToAuthenticatorEvents(s) ==
    IF ~lookup(s.authenticatorFactory) THEN throw(s)
    ELSE on(off(s, s.authenticatorFactory), s.authenticatorFactory)

setup_forgetsClear(s, factory, c) ==
    LET s1 == setProperties(s, TRUE, factory, c)
        s2 == bindToAuthenticatorEvents(s1)
        data == extend(Bag(Absent, factory), s1.content)
    IN  IF s2.threw THEN s2
        ELSE IF ~store_isLocked(s2)
             THEN store_unlock(store_persist(store_lock(s2), data))
             ELSE s2

setup_forgetsUnlock(s, factory, c) ==
    LET s1 == setProperties(s, TRUE, factory, c)
        s2 == bindToAuthenticatorEvents(s1)
        data == extend(Bag(Absent, factory), s1.content)
    IN  IF s2.threw THEN s2
        ELSE IF ~store_isLocked(s2)
             THEN store_persist(store_clear(store_lock(s2)), data)
             ELSE s2

setup(s, factory, c) ==
    LET s1 == setProperties(s, TRUE, factory, c)
        s2 == bindToAuthenticatorEvents(s1)
        data == extend(Bag(Absent, factory), s1.content)
    IN  IF s2.threw THEN s2
        ELSE IF ~store_isLocked(s2)
             THEN store_unlock(store_persist(store_clear(store_lock(s2)), data))
             ELSE s2

clear_unguarded(s) ==
    store_clear(setProperties(s, FALSE, null, NullContent))

clear(s) ==
    LET s1 == setProperties(s, FALSE, null, NullContent)
    IN  IF ~store_isLocked(s1) THEN store_clear(s1) ELSE s1

----------------------------------------------------------------------------
(* Handlers: what runs when a call is made or a promise settles.  `r' is the
   pending promise the handler belongs to. *)

from(s, name) == [s EXCEPT !.contentSource = name]

(* A pending authenticator promise: which call it belongs to ("authenticate",
   "invalidate", "init" for the restore asked for by init(), "store" for the
   restore asked for by the store listener), the authenticator it was asked
   of and, for init()'s restore, the properties handed to it.  rtId and
   rtContent remember, for a session constructed right after an authenticate
   that persisted, the id and content of that authenticate. *)
Pending(op, factory, props, rtId, rtContent) ==
    [op |-> op, factory |-> factory, props |-> props,
     rtId |-> rtId, rtContent |-> rtContent]

(* The object as Ember creates it, before init() runs: the defaults of the
   class, no listener bound *)
created(s) ==
    [s EXCEPT !.isAuthenticated = FALSE,
              !.authenticatorFactory = null,
              !.content = NullContent,
              !.contentSource = null,
              !.listeners = [a \in Ids |-> 0]]

(* init(), the synchronous part: no authenticatorFactory in the record *)
initWithoutFactory(s) ==
    IF ~store_isLocked(s) THEN store_clear(s) ELSE s

(* init(): restore resolved with content c *)
initRestoreResolved(s, r, c) == setup(from(s, r.factory), r.factory, c)

(* init(): restore rejected.  The callback is a plain function, so `this' is
   not the session and reading this.store throws before isLocked() is asked *)
initRestoreRejected(s, r) == throw(s)

(* authenticate(), the synchronous part: the executor only asks the
   authenticator to authenticate *)
authenticateCalled_clearsFirst(s, id) == clear(from(s, null))

authenticateCalled(s, id) == s

(* invalidate(), the synchronous part, with an authenticator to look up: the
   executor only asks it to invalidate *)
invalidateCalled(s) == s

authenticateResolved_forgetsResolve(s, r, c) ==
    setup(from(s, r.factory), r.factory, c)

authenticateResolved(s, r, c) ==
    LET s1 == setup(from(s, r.factory), r.factory, c)
    IN  IF s1.threw THEN s1 ELSE resolve(s1)

authenticateRejected_keepsSession(s, r, error) == reject(s, error)

authenticateRejected(s, r, error) == reject(clear(from(s, null)), error)

invalidateWithoutAuthenticator_clearsAndResolves(s) ==
    resolve(clear(from(s, null)))

(* invalidate() with no authenticator to look up: the executor throws and
   the promise rejects with the exception *)
invalidateWithoutAuthenticator(s) == reject(throw(s), TypeError)

invalidateResolved(s, r) == resolve(clear(from(off(s, r.factory), null)))

invalidateRejected_clears(s, r, error) == reject(clear(from(s, null)), error)

invalidateRejected(s, r, error) == reject(s, error)

(* store listener: no authenticatorFactory in the notified properties *)
storeUpdatedWithoutFactory(s) == clear(from(s, null))

storeRestoreResolved(s, r, c) == setup(from(s, r.factory), r.factory, c)

storeRestoreRejected_asAtBoot(s, r) ==
    IF ~store_isLocked(s) THEN store_clear(s) ELSE s

storeRestoreRejected(s, r) == clear(from(s, null))

(* the listener bound by bindToAuthenticatorEvents *)
sessionUpdatedListener(s, c) == setup(s, s.authenticatorFactory, c)

(* authenticator.trigger('ember-simple-auth:session-updated', c): the n
   listeners bound on it run one after the other *)
RECURSIVE trigger(_, _, _)
trigger(s, n, c) ==
    IF n = 0 \/ s.threw THEN s
    ELSE trigger(sessionUpdatedListener(s, c), n - 1, c)

----------------------------------------------------------------------------
(* Actions *)

NoArgs == [factory |-> null, content |-> NullContent, error |-> null,
           rtId |-> null, rtContent |-> NullContent]

(* The variables after a handler that ended in s; `op' and `args' say which
   handler ran and on what ("none": a call that only started a promise, or a
   step of another writer).  last.locked is the lock flag the handler found. *)
Apply(s, op, args) ==
    /\ isAuthenticated' = s.isAuthenticated
    /\ authenticatorFactory' = s.authenticatorFactory
    /\ content' = s.content
    /\ contentSource' = s.contentSource
    /\ listeners' = s.listeners
    /\ storeData' = s.storeData
    /\ storeLocked' = s.storeLocked
    /\ last' = [op |-> op,
                factory |-> args.factory,
                content |-> args.content,
                error |-> args.error,
                rtId |-> args.rtId,
                rtContent |-> args.rtContent,
                locked |-> storeLocked,
                log |-> s.log,
                threw |-> s.threw,
                promise |-> s.promise,
                reason |-> s.reason]

Init ==
    /\ isAuthenticated = FALSE
    /\ authenticatorFactory = null
    /\ content = NullContent
    /\ contentSource = null
    /\ listeners = [a \in Ids |-> 0]
    /\ storeBound = FALSE
    /\ storeData \in Records
    /\ storeLocked \in BOOLEAN
    /\ pending = {}
    /\ last = [op |-> "none", factory |-> null, content |-> NullContent,
               error |-> null, rtId |-> null, rtContent |-> NullContent,
               locked |-> storeLocked, log |-> <<>>, threw |-> FALSE,
               promise |-> "none", reason |-> null]

(* A Session is constructed over the store (application boot, page reload):
   whatever the previous one had pending or bound is gone with it *)
SessionInit ==
    LET s == created(Cur)
        restoredContent == store_restore(s)
        factory == restoredContent.authenticatorFactory
        afterAuthenticate == last.op = "authenticateResolved" /\ ~last.locked
    IN  /\ storeBound' = TRUE
        /\ IF factory # Absent
           THEN /\ pending' = {Pending("init", factory, deleteFactory(restoredContent),
                                       IF afterAuthenticate THEN last.factory ELSE null,
                                       IF afterAuthenticate THEN last.content ELSE NullContent)}
                /\ Apply(s, "init", NoArgs)
           ELSE /\ pending' = {}
                /\ Apply(initWithoutFactory(s), "initWithoutFactory", NoArgs)

InitRestoreResolved ==
    \E r \in pending, c \in Contents :
        /\ r.op = "init"
        /\ pending' = pending \ {r}
        /\ UNCHANGED storeBound
        /\ Apply(initRestoreResolved(Cur, r, c), "initRestoreResolved",
                 [NoArgs EXCEPT !.factory = r.factory, !.content = c,
                                !.rtId = IF c = r.props THEN r.rtId ELSE null,
                                !.rtContent = IF c = r.props THEN r.rtContent ELSE NullContent])

InitRestoreRejected ==
    \E r \in pending :
        /\ r.op = "init"
        /\ pending' = pending \ {r}
        /\ UNCHANGED storeBound
        /\ Apply(initRestoreRejected(Cur, r), "initRestoreRejected", NoArgs)

Authenticate ==
    \E id \in Ids :
        LET r == Pending("authenticate", id, Empty, null, NullContent)
        IN  /\ storeBound
            /\ Cardinality(pending) < MaxInFlight
            /\ r \notin pending
            /\ pending' = pending \cup {r}
            /\ UNCHANGED storeBound
            /\ Apply(authenticateCalled(Cur, id), "none", NoArgs)

AuthenticateResolved ==
    \E r \in pending, c \in Contents :
        /\ r.op = "authenticate"
        /\ pending' = pending \ {r}
        /\ UNCHANGED storeBound
        /\ Apply(authenticateResolved(Cur, r, c), "authenticateResolved",
                 [NoArgs EXCEPT !.factory = r.factory, !.content = c])

AuthenticateRejected ==
    \E r \in pending, error \in Errors :
        /\ r.op = "authenticate"
        /\ pending' = pending \ {r}
        /\ UNCHANGED storeBound
        /\ Apply(authenticateRejected(Cur, r, error), "authenticateRejected",
                 [NoArgs EXCEPT !.error = error])

Invalidate ==
    /\ storeBound
    /\ IF lookup(authenticatorFactory)
       THEN LET r == Pending("invalidate", authenticatorFactory, Empty, null, NullContent)
            IN  /\ Cardinality(pending) < MaxInFlight
                /\ r \notin pending
                /\ pending' = pending \cup {r}
                /\ Apply(invalidateCalled(Cur), "none", NoArgs)
       ELSE /\ pending' = pending
            /\ Apply(invalidateWithoutAuthenticator(Cur), "invalidateWithoutAuthenticator", NoArgs)
    /\ UNCHANGED storeBound

InvalidateResolved ==
    \E r \in pending :
        /\ r.op = "invalidate"
        /\ pending' = pending \ {r}
        /\ UNCHANGED storeBound
        /\ Apply(invalidateResolved(Cur, r), "invalidateResolved",
                 [NoArgs EXCEPT !.factory = r.factory])

InvalidateRejected ==
    \E r \in pending, error \in Errors :
        /\ r.op = "invalidate"
        /\ pending' = pending \ {r}
        /\ UNCHANGED storeBound
        /\ Apply(invalidateRejected(Cur, r, error), "invalidateRejected",
                 [NoArgs EXCEPT !.error = error])

(* The store emits ember-simple-auth:session-updated with the properties
   another writer left in it *)
StoreUpdated ==
    \E properties \in Records :
        LET factory == properties.authenticatorFactory
            r == Pending("store", factory, Empty, null, NullContent)
        IN  /\ storeBound
            /\ IF factory # Absent
               THEN /\ Cardinality(pending) < MaxInFlight
                    /\ r \notin pending
                    /\ pending' = pending \cup {r}
                    /\ Apply(Cur, "none", NoArgs)
               ELSE /\ pending' = pending
                    /\ Apply(storeUpdatedWithoutFactory(Cur), "storeUpdatedWithoutFactory",
                             NoArgs)
            /\ UNCHANGED storeBound

StoreRestoreResolved ==
    \E r \in pending, c \in Contents :
        /\ r.op = "store"
        /\ pending' = pending \ {r}
        /\ UNCHANGED storeBound
        /\ Apply(storeRestoreResolved(Cur, r, c), "storeRestoreResolved",
                 [NoArgs EXCEPT !.factory = r.factory, !.content = c])

StoreRestoreRejected ==
    \E r \in pending :
        /\ r.op = "store"
        /\ pending' = pending \ {r}
        /\ UNCHANGED storeBound
        /\ Apply(storeRestoreRejected(Cur, r), "storeRestoreRejected", NoArgs)

(* An authenticator emits ember-simple-auth:session-updated *)
SessionUpdated ==
    \E a \in Ids, c \in Contents :
        /\ listeners[a] > 0
        /\ UNCHANGED <<pending, storeBound>>
        /\ Apply(trigger(from(Cur, a), listeners[a], c), "sessionUpdated",
                 [NoArgs EXCEPT !.factory = a, !.content = c])

(* Another writer of the shared store takes the lock, writes, releases *)
OtherLock ==
    /\ ~storeLocked
    /\ UNCHANGED <<pending, storeBound>>
    /\ Apply(store_lock(Cur), "none", NoArgs)

OtherWrite ==
    \E record \in Records :
        /\ storeLocked
        /\ UNCHANGED <<pending, storeBound>>
        /\ Apply(store_persist(store_clear(Cur), record), "none", NoArgs)

OtherUnlock ==
    /\ storeLocked
    /\ UNCHANGED <<pending, storeBound>>
    /\ Apply(store_unlock(Cur), "none", NoArgs)

Next ==
    \/ SessionInit
    \/ InitRestoreResolved
    \/ InitRestoreRejected
    \/ Authenticate
    \/ AuthenticateResolved
    \/ AuthenticateRejected
    \/ Invalidate
    \/ InvalidateResolved
    \/ InvalidateRejected
    \/ StoreUpdated
    \/ StoreRestoreResolved
    \/ StoreRestoreRejected
    \/ SessionUpdated
    \/ OtherLock
    \/ OtherWrite
    \/ OtherUnlock

Spec == Init /\ [][Next]_vars

----------------------------------------------------------------------------
(* Properties *)

Unauthenticated ==
    ~isAuthenticated /\ authenticatorFactory = null /\ content = NullContent

StoreCalls(log) ==
    {i \in 1..Len(log) :
        log[i] \in {"store.lock", "store.clear", "store.persist", "store.unlock"}}

\* content c plus the field authenticatorFactory = id
PlusFactory(c, id) ==
    IF c = NullContent THEN Bag(Absent, id)
    ELSE [c EXCEPT !.authenticatorFactory = id]

\* the handlers that run setup or clear
SetupOrClear ==
    {"initRestoreResolved", "authenticateResolved", "authenticateRejected",
     "invalidateResolved", "storeUpdatedWithoutFactory", "storeRestoreResolved",
     "storeRestoreRejected", "sessionUpdated"}

(* C1: in every reachable state isAuthenticated is true exactly when
   authenticatorFactory is non-null and content is non-null. *)
C1_FieldsAgree ==
    isAuthenticated = (authenticatorFactory # null /\ content # NullContent)

(* C2: when the authenticator's authenticate promise resolves with content
   C, the session ends authenticated with authenticatorFactory = id and
   content = C, the caller's promise resolves, and if the store was unlocked
   it holds exactly C plus the field authenticatorFactory = id. *)
C2_AuthenticateResolves ==
    last.op = "authenticateResolved" =>
        /\ isAuthenticated
        /\ authenticatorFactory = last.factory
        /\ content = last.content
        /\ last.promise = "resolved"
        /\ ~last.locked => storeData = PlusFactory(last.content, last.factory)

(* C3: when the authenticator's authenticate promise rejects with error E,
   from either state, the session ends unauthenticated with
   authenticatorFactory and content null, the caller's promise rejects with
   exactly E, and the store is cleared if it was unlocked and left as it was
   if it was locked. *)
C3_AuthenticateRejects ==
    [][last'.op = "authenticateRejected" =>
        /\ Unauthenticated'
        /\ last'.promise = "rejected"
        /\ last'.reason = last'.error
        /\ storeLocked' = storeLocked
        /\ storeData' = IF storeLocked THEN storeData ELSE Empty]_vars

\* authenticate rejected with E2 on a session that had been authenticated
\* (its listener is still bound), the store unlocked
C3_Witness ==
    /\ last.op = "authenticateRejected"
    /\ last.reason = "E2"
    /\ ~last.locked
    /\ \E a \in Ids : listeners[a] > 0

(* C4: when the authenticator's invalidate promise rejects with error E,
   the caller's promise rejects with E and the session fields, the store's
   record, the lock flag and the bound listeners are as before. *)
C4_InvalidateRejectedChangesNothing ==
    [][last'.op = "invalidateRejected" =>
        /\ last'.promise = "rejected"
        /\ last'.reason = last'.error
        /\ UNCHANGED <<isAuthenticated, authenticatorFactory, content,
                       storeData, storeLocked, listeners>>]_vars

\* invalidate rejected on an authenticated session whose record is in the
\* store and whose listener is bound
C4_Witness ==
    /\ last.op = "invalidateRejected"
    /\ isAuthenticated
    /\ lookup(authenticatorFactory)
    /\ listeners[authenticatorFactory] = 1
    /\ storeData = PlusFactory(content, authenticatorFactory)

(* C5: when the authenticator's invalidate promise resolves, in order the
   listener on that authenticator is unbound, the session is cleared, the
   store is erased if unlocked, and then the caller's promise resolves;
   afterwards no session-updated listener of the session is bound. *)
C5_InvalidateResolves ==
    last.op = "invalidateResolved" =>
        /\ last.log = IF last.locked
                      THEN <<"off", "setProperties", "resolve">>
                      ELSE <<"off", "setProperties", "store.clear", "resolve">>
        /\ Unauthenticated
        /\ ~last.locked => storeData = Empty
        /\ \A a \in Ids : listeners[a] = 0

(* C6: exactly one session-updated listener of the session is bound, on the
   authenticator named by authenticatorFactory, and none on any other
   authenticator. *)
C6_OneListener ==
    lookup(authenticatorFactory) =>
        /\ listeners[authenticatorFactory] = 1
        /\ \A a \in Ids \ {authenticatorFactory} : listeners[a] = 0

(* C7: when the store is locked at the moment setup or clear reaches its
   store write, the session issues no persist, clear, lock or unlock call in
   that step and the store's record and lock flag are left as they were. *)
C7_LockRespect ==
    [][(last'.op \in SetupOrClear /\ ~last'.threw /\ storeLocked) =>
        /\ StoreCalls(last'.log) = {}
        /\ UNCHANGED <<storeData, storeLocked>>]_vars

\* authenticate resolved while another writer held the lock over its own
\* record: the session is authenticated, the record is the other writer's
C7_Witness ==
    /\ last.op = "authenticateResolved"
    /\ last.locked
    /\ storeLocked
    /\ isAuthenticated
    /\ storeData.authenticatorFactory # authenticatorFactory

(* C8: if authenticate(id) resolves with content C while the store is
   unlocked and a new session is then constructed over the same store with
   an authenticator whose restore resolves with the properties it is given,
   the new session ends authenticated with authenticatorFactory = id and
   content = C. *)
C8_RoundTrip ==
    (last.op = "initRestoreResolved" /\ last.rtId # null
        /\ last.rtContent # NullContent) =>
        /\ isAuthenticated
        /\ authenticatorFactory = last.rtId
        /\ content = last.rtContent

(* C9: at construction, if the persisted record has no authenticatorFactory
   or the named authenticator's restore rejects, the store is cleared when it
   is unlocked and left untouched when it is locked, and the session is not
   authenticated by it. *)
C9_BootRestoreFailure ==
    [][last'.op \in {"initWithoutFactory", "initRestoreRejected"} =>
        /\ storeLocked' = storeLocked
        /\ storeData' = IF storeLocked THEN storeData ELSE Empty
        /\ last'.op = "initWithoutFactory" => Unauthenticated'
        /\ last'.op = "initRestoreRejected" =>
               UNCHANGED <<isAuthenticated, authenticatorFactory, content>>]_vars

(* C10: on a store notification whose properties carry no
   authenticatorFactory, or whose authenticator's restore rejects, the
   session is cleared to unauthenticated whatever the lock state, and the
   store's clear() is called when the store is unlocked. *)
C10_StoreUpdateFailureClears ==
    last.op \in {"storeUpdatedWithoutFactory", "storeRestoreRejected"} =>
        /\ Unauthenticated
        /\ ~last.locked =>
              /\ last.log = <<"setProperties", "store.clear">>
              /\ storeData = Empty

\* the restore asked for by a store notification rejected while the store
\* was locked and the session had been authenticated
C10_Witness ==
    /\ last.op = "storeRestoreRejected"
    /\ last.locked
    /\ storeData # Empty
    /\ \E a \in Ids : listeners[a] > 0

(* C11: when the authenticator bound to an authenticated session emits
   session-updated with content C, the session's content becomes C,
   authenticatorFactory is unchanged, the store (if unlocked) is persisted
   again as C plus the same authenticatorFactory, and the session fields are
   written once, with isAuthenticated true. *)
C11_SilentRefresh ==
    [][(/\ last'.op = "sessionUpdated"
        /\ isAuthenticated
        /\ lookup(authenticatorFactory)
        /\ last'.factory = authenticatorFactory) =>
        /\ isAuthenticated'
        /\ authenticatorFactory' = authenticatorFactory
        /\ content' = last'.content
        /\ Cardinality({i \in 1..Len(last'.log) : last'.log[i] = "setProperties"}) = 1
        /\ ~storeLocked =>
              storeData' = PlusFactory(last'.content, authenticatorFactory)]_vars

(* C12: an authenticate() or invalidate() call whose authenticator promise
   settles has its own promise settled with the same outcome: resolved if the
   authenticator resolved, rejected with the same error if it rejected.  A
   rejected restore, at boot or after a store notification, settles no
   caller's promise. *)
C12_ErrorPropagation ==
    /\ last.op \in {"authenticateResolved", "invalidateResolved"} =>
           last.promise = "resolved"
    /\ last.op \in {"authenticateRejected", "invalidateRejected"} =>
           last.promise = "rejected" /\ last.reason = last.error
    /\ last.op \in {"initRestoreRejected", "storeRestoreRejected"} =>
           last.promise = "none"

\* an authenticate() that resolved while another one is still pending and
\* the store is locked: its promise resolved
C12_Witness ==
    /\ last.op = "authenticateResolved"
    /\ last.promise = "resolved"
    /\ last.locked
    /\ \E r \in pending : r.op = "authenticate"

IsLockCall(call) == call \in {"store.lock", "store.unlock"}
LockCalls(log) == SelectSeq(log, IsLockCall)

\* every lock() is followed by its unlock() before the next lock(), and no
\* unlock() comes without a lock() before it
Paired(calls) ==
    /\ Len(calls) % 2 = 0
    /\ \A i \in 1..Len(calls) :
           calls[i] = IF i % 2 = 1 THEN "store.lock" ELSE "store.unlock"

(* C13: every lock() the session issues is followed by its unlock() in the
   same handler, the session never calls unlock() on a lock it did not take
   (it issues neither call when it finds the store locked), and when the
   handler returns the lock flag is as the handler found it: the session
   holds no lock at a suspension point. *)
C13_LockOnlyWithinSetup ==
    [][last'.op # "none" =>
        /\ Paired(LockCalls(last'.log))
        /\ storeLocked => LockCalls(last'.log) = <<>>
        /\ storeLocked' = storeLocked]_vars

\* a restore asked for by a store notification resolved with the store
\* unlocked: setup took the lock and released it
C13_Witness ==
    /\ last.op = "storeRestoreResolved"
    /\ LockCalls(last.log) = <<"store.lock", "store.unlock">>
    /\ ~storeLocked

\* the session holds the lock when it issues call i of the log
HeldAt(log, i) ==
    \E j \in 1..(i - 1) :
        /\ log[j] = "store.lock"
        /\ \A k \in (j + 1)..(i - 1) : log[k] # "store.unlock"

(* C14: every write of the session to the store is made under the lock: no
   clear() or persist() is issued by the session while it does not hold the
   lock (setup: lock, clear, persist, unlock; the pure clear: lock, clear,
   unlock). *)
C14_WritesUnderLock ==
    last.op # "none" =>
        \A i \in 1..Len(last.log) :
            last.log[i] \in {"store.clear", "store.persist"} => HeldAt(last.log, i)

(* C15: an authenticate() or invalidate() call whose authenticator promise
   is pending has changed nothing: the step that makes the call leaves
   isAuthenticated, authenticatorFactory, content, the bound listeners, the
   store's record and the lock flag as they were, and nothing more of the
   call runs until the promise settles. *)
C15_PendingCallChangesNothing ==
    [][(\E r \in pending' \ pending : r.op \in {"authenticate", "invalidate"}) =>
        UNCHANGED <<isAuthenticated, authenticatorFactory, content,
                    listeners, storeData, storeLocked>>]_vars

\* authenticate() with another authenticator was just called on an
\* authenticated session and is pending: the session is as before the call
C15_Witness ==
    /\ last.op = "none"
    /\ isAuthenticated
    /\ lookup(authenticatorFactory)
    /\ listeners[authenticatorFactory] = 1
    /\ storeData = PlusFactory(content, authenticatorFactory)
    /\ \E r \in pending : r.op = "authenticate" /\ r.factory # authenticatorFactory

(* C16: invalidate() called while authenticatorFactory is null, so that no
   authenticator can be looked up, rejects the returned promise with the
   error, never resolves it, and leaves the session fields, the listeners,
   the store's record and the lock flag unchanged. *)
C16_InvalidateWhileUnauthenticated ==
    [][last'.op = "invalidateWithoutAuthenticator" =>
        /\ authenticatorFactory = null
        /\ last'.promise = "rejected"
        /\ last'.reason = TypeError
        /\ UNCHANGED <<isAuthenticated, authenticatorFactory, content,
                       listeners, storeData, storeLocked>>]_vars

\* invalidate() was called on an unauthenticated session over a store that
\* another writer filled: rejected, the record is still there
C16_Witness ==
    /\ last.op = "invalidateWithoutAuthenticator"
    /\ last.promise = "rejected"
    /\ Unauthenticated
    /\ storeData # Empty

(* C17, as claimed, in the case it includes by name: right after a setup or
   clear that found the store locked by another writer, the store holds
   content plus authenticatorFactory when the session is authenticated and
   no record when it is unauthenticated. *)
C17_StoreAgreesAlsoWhenLocked ==
    (last.op \in SetupOrClear /\ last.locked /\ ~last.threw) =>
        storeData = IF isAuthenticated
                    THEN PlusFactory(content, authenticatorFactory)
                    ELSE Empty

(* C17, amended: right after a setup or clear that found the store unlocked
   and ran to its end, the store holds the record setup built from content
   and authenticatorFactory when the session is authenticated, and no record
   when it is unauthenticated. *)
C17_StoreAgreesWhenUnlocked ==
    (last.op \in SetupOrClear /\ ~last.locked /\ ~last.threw) =>
        storeData = IF isAuthenticated
                    THEN extend(Bag(Absent, authenticatorFactory), content)
                    ELSE Empty

\* authenticate resolved with the store unlocked over another writer's
\* record: the store holds the new content and the authenticator's id
C17_Witness ==
    /\ last.op = "authenticateResolved"
    /\ ~last.locked
    /\ isAuthenticated
    /\ content = Empty
    /\ storeData = Bag(Absent, authenticatorFactory)

\* the handlers that run setup
SetupOnly ==
    {"initRestoreResolved", "authenticateResolved", "storeRestoreResolved",
     "sessionUpdated"}

(* C18: for every content an authenticator can produce, also one that has a
   key named authenticatorFactory itself, the record that setup(id, content)
   persists has its authenticatorFactory field equal to id. *)
C18_PersistedFactoryIsId ==
    (last.op \in SetupOnly /\ ~last.locked /\ ~last.threw) =>
        storeData.authenticatorFactory = authenticatorFactory

(* C19: whenever the session is unauthenticated, no session-updated
   listener of the session is bound to any authenticator. *)
C19_NoListenerWhenUnauthenticated ==
    Unauthenticated => \A a \in Ids : listeners[a] = 0

(* C20: whenever the session is authenticated, its content was produced by
   the authenticator named by authenticatorFactory. *)
C20_ContentProvenance ==
    (isAuthenticated /\ lookup(authenticatorFactory)) =>
        contentSource = authenticatorFactory

====
